---- MODULE Spec2Model ----
(***************************************************************************)
(* Verification model of the SearchAuto backend (search-auto).             *)
(*                                                                         *)
(* Part 1  Quota ledger and POST /api/search request handling              *)
(*         (services/credits_service.py, modules/search/router.py,         *)
(*          core/jwt_auth.py, modules/billing/webhooks.py).                *)
(* Part 2  Provider fan-out and merge (agents/search/steps/                *)
(*         scrape_websites.py).                                            *)
(* Part 3  Price coercion of the provider adapters                         *)
(*         (integrations/autodev_api.py, integrations/autotrader_ca.py).   *)
(*                                                                         *)
(* The database is one committed `users` row shared by all sessions        *)
(* (PostgreSQL, READ COMMITTED).  Every SQL statement is one atomic step;  *)
(* statements of different sessions interleave freely, except that         *)
(* SELECT ... FOR UPDATE and UPDATE wait for the row lock.                 *)
(*                                                                         *)
(* Each request owns one SQLAlchemy Session (get_db, cached per request).  *)
(* The Session keeps an identity map: the User object loaded by            *)
(* get_current_user_jwt stays in the map with its loaded attribute values  *)
(* until the Session commits (expire_on_commit).  A later                  *)
(* db.query(User)...first(), with or without with_for_update(), returns    *)
(* that same object and does NOT overwrite attributes that are already     *)
(* loaded (the query carries no populate_existing()).  sess[r] is that     *)
(* object: check_quota and deduct_credit read sess[r], not the row.        *)
(***************************************************************************)
EXTENDS Integers, Sequences, FiniteSets, TLC

(* ------------------------------ bounds -------------------------------- *)
NumReqs == 2          \* concurrent POST /api/search requests
MaxInitCredits == 2   \* largest initial balance explored
MaxAdminOps == 2      \* billing webhook mutations explored
NumEvents == 2        \* distinct Stripe event ids
MaxCars == 2          \* listings a provider call may return
MaxPerScraper == 2    \* listings one scraper may return
NumVehicles == 2      \* distinct (brand, model, year, price) tuples on offer
MaxPrice == 3         \* largest numeric raw price explored
MaxStrLen == 2        \* longest raw price string explored
MaxRanked == 3        \* longest list handed to ranking
MaxSnapshot == 16     \* most listings a provider holds for one query
MaxPage == 2          \* highest page asked for
MaxTokens == 2        \* most required_features tokens
MaxFieldLen == 2      \* longest description text

(* ------------------------- program constants -------------------------- *)
credits_to_add == 50
max_search_results == 12
agent_result_cap == 15
NumScrapers == 3
save_cap == 10
default_search_limit == 10
default_page_size == 20

Reqs == 1..NumReqs

VARIABLES
    credits,      \* users.credits_remaining  (committed row)
    unlimited,    \* users.unlimited_searches (committed row)
    lockHolder,   \* request holding the FOR UPDATE row lock, 0 = free
    pc,           \* pc[r]: position of request r in search_cars
    sess,         \* sess[r]: the User object in request r's Session
    outcome,      \* outcome[r]: HTTP status of the response, 0 = none yet
    deductCalls,  \* deductCalls[r]: deduct_credit invocations by r
    deducted,     \* deducted[r]: deduct_credit returned True for r
    charged,      \* charged[r]: decrements committed by r
    runs,         \* runs[r]: execute_search invocations by r
    provider,     \* provider[r]: what the provider call of r did
    cars,         \* cars[r]: listings execute_search holds for r
    timedOut,     \* timedOut[r]: asyncio.wait_for raised TimeoutError
    persisted,    \* persisted[r]: persist_search_results committed
    count,        \* count[r]: SearchResponse.count
    adminPc,      \* position of the billing webhook handler
    adminSess,    \* credits_remaining loaded in the webhook's Session
    adminOps,     \* webhook mutations committed so far
    history,      \* the user's Search rows with results, oldest first
    hpc,          \* position of GET /api/search/personalized
    hresp,        \* its SearchResponse
    hruns,        \* execute_search invocations by it
    subscription, \* UserSubscription.status of the user, "none" without a row
    deliveries,   \* Stripe events process_webhook has handled, in order
    mpc,          \* position of scrape_websites
    wanted,       \* query_params brand/model: the vehicle asked for, 0 = none
    taskResult,   \* taskResult[i]: entry i of the asyncio.gather result
    merged,       \* autotrader_cars
    raw,          \* the raw listing handed to an adapter
    country,      \* query_params["country"]
    converted,    \* the adapter that converted raw, "none" = not yet
    emitted,      \* the cars list the adapter returned
    adapter,      \* the adapter whose search call is running
    enabled,      \* self.enabled of that adapter
    spc,          \* position of the search call under its retry decorator
    tried,        \* what happened in each attempt made so far
    sresult,      \* number of cars the search call returned
    caller,       \* who calls the adapter
    gquery,       \* postal_code, location and country of the search
    gtarget,      \* the geo target the adapter resolved for its request
    scurrency,    \* display_currency of the listings the search call converted
    rcars,        \* the cars handed to rank_cars_by_relevance
    prefs,        \* whether user_preferences were given
    rpc,          \* position in rank -> persist -> load
    ranked,       \* the list rank_cars_by_relevance returned
    stored,       \* the SearchResult rows written for the search
    shown,        \* CarResponse.match of the cars loaded back
    snapshot,     \* number of listings the provider holds for the query
    plimit,       \* the limit of the search
    ppage,        \* the page of the search
    ppc,          \* position of the paged search
    presults,     \* offsets, in the provider's ranked set, of the listings returned
    fcar,         \* the car handed to filter_cars_by_criteria
    criteria,     \* min_price, max_price, required_features, preferred_brands
    fpc,          \* position of the filter call
    filtered      \* the list filter_cars_by_criteria returned

vars == <<credits, unlimited, lockHolder, pc, sess, outcome, deductCalls,
          deducted, charged, runs, provider, cars, timedOut, persisted,
          count, adminPc, adminSess, adminOps, history, hpc, hresp, hruns,
          subscription, deliveries,
          mpc, wanted, taskResult, merged, raw, country, converted, emitted,
          adapter, enabled, spc, tried, sresult, caller, gquery, gtarget, scurrency,
          rcars, prefs, rpc, ranked, stored, shown,
          snapshot, plimit, ppage, ppc, presults,
          fcar, criteria, fpc, filtered>>

homeVars == <<history, hpc, hresp, hruns>>
billingVars == <<subscription, deliveries>>
onlineVars == <<credits, unlimited, lockHolder, pc, sess, outcome, deductCalls,
                deducted, charged, runs, provider, cars, timedOut, persisted,
                count, adminPc, adminSess, adminOps, homeVars, billingVars>>
mergeVars == <<mpc, wanted, taskResult, merged>>
adapterVars == <<raw, country, converted, emitted>>
searchVars == <<adapter, enabled, spc, tried, sresult, caller, gquery, gtarget,
                scurrency>>
rankVars == <<rcars, prefs, rpc, ranked, stored, shown>>
pageVars == <<snapshot, plimit, ppage, ppc, presults>>
filterVars == <<fcar, criteria, fpc, filtered>>
toolVars == <<searchVars, rankVars, pageVars, filterVars>>
offlineVars == <<mergeVars, adapterVars, toolVars>>

ledgerVars == <<credits, unlimited, lockHolder>>
adminVars == <<adminPc, adminSess, adminOps>>
reqLedgerVars == <<deductCalls, deducted, charged>>
pipeVars == <<runs, provider, cars, timedOut, persisted, count>>

NoSess == [loaded |-> FALSE, credits |-> 0, unlimited |-> FALSE]

None == [t |-> "none"]
NoRaw == [price |-> None, price_cad |-> None, price_str |-> None]

(* ------------------------- pure decisions ----------------------------- *)

\* CreditsService.check_quota on the User object u
check_quota(u) == u.unlimited \/ u.credits > 0

\* deduct_credit: which branch the User object u takes
deduct_branch(u) ==
    IF u.unlimited THEN "bypass"
    ELSE IF u.credits <= 0 THEN "quota_exceeded"
    ELSE "decrement"

\* a decrement that takes two credits
decremented_twice(u) == u.credits - 2

\* deduct_credit: the value written by `user.credits_remaining -= 1`
decremented(u) == u.credits - 1

\* a bypass that returns without ending the transaction of request r
lock_kept_on_bypass(r, b) == IF b = "bypass" THEN r ELSE 0

\* who holds the row lock once request r left deduct_credit by branch b:
\* the commit of the decrement, the db.commit() of search_cars after the
\* bypass, and the close of the Session after the 402 all end the transaction
lock_after_deduct(r, b) == 0

\* the deadline handler answering 200 with whatever had been collected
on_timeout_partial(held) == [status |-> 200, count |-> held]

\* search_cars: `except asyncio.TimeoutError: raise AppException(..., 408)`;
\* held = the listings execute_search held when it was cancelled
on_timeout(held) == [status |-> 408, count |-> 0]

\* search_cars: status raised for any other exception inside the try block
error_status == 500

\* the handler running the pipeline again after an exception
retry_after_error == "search"

\* search_cars: where a request goes after an exception inside the try block
after_search_error == "done"

\* a transport failure re-raised to the caller once the retries are used up
raises_transport(ev) == ev \in {"init_error", "transport_error"}

\* search_car_listings: does what happened reach execute_search as an
\* exception?  AutoDevAPI() builds its geocoders outside any try; everything
\* else happens inside the try block of search_listings
raises(ev) == ev = "init_error"

\* AutoDevAPI.search_listings: the list it returns for what happened
\* inside it (n = listings converted from a good response)
search_listings_result(ev, n) ==
    IF ev = "ok" THEN n ELSE 0

\* search_car_listings: `cars[:15]`
capped(n) == IF n > agent_result_cap THEN agent_result_cap ELSE n

\* load_cars_from_search: `.limit(settings.max_search_results)`
loaded_count(n) == IF n > max_search_results THEN max_search_results ELSE n

\* an empty result answered as "not found"
response_status_empty_404(n) == IF n = 0 THEN 404 ELSE 200

\* search_cars: the SearchResponse for n cars held by execute_search
response_status(n) == 200
response_count(n) == IF n > 0 THEN loaded_count(n) ELSE 0

(* ------------------------------ Init ---------------------------------- *)

ReqInit ==
    /\ pc = [r \in Reqs |-> "start"]
    /\ sess = [r \in Reqs |-> NoSess]
    /\ outcome = [r \in Reqs |-> 0]
    /\ deductCalls = [r \in Reqs |-> 0]
    /\ deducted = [r \in Reqs |-> FALSE]
    /\ charged = [r \in Reqs |-> 0]
    /\ runs = [r \in Reqs |-> 0]
    /\ provider = [r \in Reqs |-> "none"]
    /\ cars = [r \in Reqs |-> 0]
    /\ timedOut = [r \in Reqs |-> FALSE]
    /\ persisted = [r \in Reqs |-> FALSE]
    /\ count = [r \in Reqs |-> 0]

AdminInit ==
    /\ adminPc = "idle"
    /\ adminSess = 0
    /\ adminOps = 0

\* no search stored, GET /api/search/personalized not called
NoResponse == [status |-> 0, query |-> <<"none", 0>>, count |-> 0, source |-> "none"]
HomeInit ==
    /\ history = <<>>
    /\ hpc = "idle"
    /\ hresp = NoResponse
    /\ hruns = 0

\* no UserSubscription row, no webhook delivered
BillingInit ==
    /\ subscription = "none"
    /\ deliveries = <<>>

\* scrape_websites is not running
MergeIdle ==
    /\ mpc = "idle"
    /\ wanted = 0
    /\ taskResult = <<>>
    /\ merged = <<>>

\* no listing is being converted
AdaptersIdle ==
    /\ raw = NoRaw
    /\ country = "CA"
    /\ converted = "none"
    /\ emitted = <<>>

\* a query without postal code, location and country; a text is a sequence
\* of characters, <<>> for a missing or empty one
NoQuery == [postal_code |-> <<>>, location |-> <<>>, country |-> <<>>]

\* (country, lat, lon, postal) with nothing resolved; coords is <<>> for
\* lat = lon = None
NoTarget == [country |-> <<>>, coords |-> <<>>, postal |-> <<>>]

\* no adapter search call is running
SearchIdle ==
    /\ adapter = "none"
    /\ enabled = FALSE
    /\ spc = "idle"
    /\ tried = <<>>
    /\ sresult = 0
    /\ caller = "none"
    /\ gquery = NoQuery
    /\ gtarget = NoTarget
    /\ scurrency = "none"

\* nothing is being ranked or stored
RankIdle ==
    /\ rcars = <<>>
    /\ prefs = FALSE
    /\ rpc = "idle"
    /\ ranked = <<>>
    /\ stored = <<>>
    /\ shown = <<>>

\* no paged search is running
PageIdle ==
    /\ snapshot = 0
    /\ plimit = 0
    /\ ppage = 0
    /\ ppc = "idle"
    /\ presults = <<>>

\* the filter tool is not running
FilterIdle ==
    /\ fcar = "none"
    /\ criteria = "none"
    /\ fpc = "idle"
    /\ filtered = <<>>

\* the stand-alone parts at rest
ToolsIdle == SearchIdle /\ RankIdle /\ PageIdle /\ FilterIdle

\* nothing is being merged or converted (parts 2 and later at rest)
OfflineIdle ==
    /\ MergeIdle
    /\ AdaptersIdle
    /\ ToolsIdle

Init ==
    /\ credits \in 0..MaxInitCredits
    /\ unlimited \in BOOLEAN
    /\ lockHolder = 0
    /\ ReqInit
    /\ AdminInit
    /\ HomeInit
    /\ BillingInit
    /\ OfflineIdle

(* -------------------- POST /api/search: the ledger -------------------- *)

\* get_current_user_jwt: db.query(User).filter(User.id == user_id).first()
Authenticate(r) ==
    /\ pc[r] = "start"
    /\ sess' = [sess EXCEPT ![r] =
                  [loaded |-> TRUE, credits |-> credits, unlimited |-> unlimited]]
    /\ pc' = [pc EXCEPT ![r] = "check_quota"]
    /\ UNCHANGED <<ledgerVars, outcome, reqLedgerVars, pipeVars, adminVars, offlineVars, homeVars, billingVars>>

\* search_cars: `if not credits.check_quota(user_id): raise AppException(402)`
CheckQuota(r) ==
    /\ pc[r] = "check_quota"
    /\ IF check_quota(sess[r])
       THEN /\ pc' = [pc EXCEPT ![r] = "deduct_lock"]
            /\ UNCHANGED <<outcome, sess>>
       ELSE /\ pc' = [pc EXCEPT ![r] = "done"]
            /\ outcome' = [outcome EXCEPT ![r] = 402]
            /\ sess' = [sess EXCEPT ![r] = NoSess]
    /\ UNCHANGED <<ledgerVars, reqLedgerVars, pipeVars, adminVars, offlineVars, homeVars, billingVars>>

\* deduct_credit: `...with_for_update().first()` waits for and takes the row lock
DeductLock(r) ==
    /\ pc[r] = "deduct_lock"
    /\ lockHolder = 0
    /\ lockHolder' = r
    /\ deductCalls' = [deductCalls EXCEPT ![r] = @ + 1]
    /\ pc' = [pc EXCEPT ![r] = "deduct"]
    /\ UNCHANGED <<credits, unlimited, sess, outcome, deducted, charged,
                   pipeVars, adminVars, offlineVars, homeVars, billingVars>>

\* deduct_credit after the lock: unlimited bypass, 402, or decrement + commit;
\* then search_cars: db.commit() / re-raise of the 402.  The commit, or the
\* rollback when get_db closes the Session after the 402, releases the row
\* lock; a commit expires the User object, a close empties the Session.
DeductBody(r) ==
    /\ pc[r] = "deduct"
    /\ lockHolder = r
    /\ lockHolder' = lock_after_deduct(r, deduct_branch(sess[r]))
    /\ LET b == deduct_branch(sess[r]) IN
       CASE b = "bypass" ->
              /\ deducted' = [deducted EXCEPT ![r] = TRUE]
              /\ pc' = [pc EXCEPT ![r] = "search"]
              /\ sess' = [sess EXCEPT ![r] = NoSess]
              /\ UNCHANGED <<credits, charged, outcome>>
         [] b = "quota_exceeded" ->
              /\ outcome' = [outcome EXCEPT ![r] = 402]
              /\ pc' = [pc EXCEPT ![r] = "done"]
              /\ sess' = [sess EXCEPT ![r] = NoSess]
              /\ UNCHANGED <<credits, charged, deducted>>
         [] OTHER ->
              /\ credits' = decremented(sess[r])
              /\ charged' = [charged EXCEPT ![r] = @ + 1]
              /\ deducted' = [deducted EXCEPT ![r] = TRUE]
              /\ pc' = [pc EXCEPT ![r] = "search"]
              /\ sess' = [sess EXCEPT ![r] = NoSess]
              /\ UNCHANGED outcome
    /\ UNCHANGED <<unlimited, deductCalls, pipeVars, adminVars, offlineVars, homeVars, billingVars>>

(* ------------------ POST /api/search: the pipeline -------------------- *)

ProviderEvents ==
    {"init_error", "disabled", "transport_error", "parse_error", "geo_error", "ok"}

\* the points at which execute_search is suspended on an await
Awaiting == {"extract", "provider", "summary"}

\* search_cars: `except Exception: raise AppException("Search failed...", 500)`
SearchError(r) ==
    /\ outcome' = [outcome EXCEPT ![r] = error_status]
    /\ pc' = [pc EXCEPT ![r] = after_search_error]

\* search_cars: build_user_context, then
\* `await asyncio.wait_for(execute_search(...), timeout=...)` is entered
StartSearch(r) ==
    /\ pc[r] = "search"
    /\ runs' = [runs EXCEPT ![r] = @ + 1]
    /\ pc' = [pc EXCEPT ![r] = "extract"]
    /\ UNCHANGED <<ledgerVars, sess, outcome, reqLedgerVars, provider, cars,
                   timedOut, persisted, count, adminVars, offlineVars, homeVars, billingVars>>

\* execute_search: `features = await claude.extract_search_features(query)`;
\* the LLM call either answers or raises
ExtractFeatures(r) ==
    /\ pc[r] = "extract"
    /\ \E ok \in BOOLEAN :
         IF ok THEN /\ pc' = [pc EXCEPT ![r] = "provider"]
                    /\ UNCHANGED outcome
               ELSE SearchError(r)
    /\ UNCHANGED <<ledgerVars, sess, reqLedgerVars, pipeVars, adminVars, offlineVars, homeVars, billingVars>>

\* execute_search: `cars = await search_car_listings.ainvoke(...)`:
\* AutoDevAPI() is constructed (its geocoders are built outside any try), then
\* search_listings runs; whatever fails inside search_listings is caught there
ProviderCall(r) ==
    /\ pc[r] = "provider"
    /\ \E ev \in ProviderEvents, n \in 0..MaxCars :
         /\ provider' = [provider EXCEPT ![r] = ev]
         /\ IF raises(ev)
            THEN /\ SearchError(r)
                 /\ UNCHANGED cars
            ELSE /\ cars' = [cars EXCEPT ![r] = capped(search_listings_result(ev, n))]
                 /\ pc' = [pc EXCEPT ![r] = "summary"]
                 /\ UNCHANGED outcome
    /\ UNCHANGED <<ledgerVars, sess, reqLedgerVars, runs, timedOut, persisted,
                   count, adminVars, offlineVars, homeVars, billingVars>>

\* execute_search: `summary = await claude.generate_search_summary(...)`;
\* execute_search returns and wait_for hands (cars, summary) to search_cars
Summarize(r) ==
    /\ pc[r] = "summary"
    /\ pc' = [pc EXCEPT ![r] = "persist"]
    /\ UNCHANGED <<ledgerVars, sess, outcome, reqLedgerVars, pipeVars, adminVars, offlineVars, homeVars, billingVars>>

\* search_cars: asyncio.wait_for cancels execute_search at the await it is
\* suspended on and raises TimeoutError; what execute_search held is dropped
Timeout(r) ==
    /\ pc[r] \in Awaiting
    /\ timedOut' = [timedOut EXCEPT ![r] = TRUE]
    /\ outcome' = [outcome EXCEPT ![r] = on_timeout(cars[r]).status]
    /\ count' = [count EXCEPT ![r] = on_timeout(cars[r]).count]
    /\ pc' = [pc EXCEPT ![r] = "done"]
    /\ UNCHANGED <<ledgerVars, sess, reqLedgerVars, runs, provider, cars,
                   persisted, adminVars, offlineVars, homeVars, billingVars>>

\* request.query of POST request r
request_query(r) == <<"post", r>>

\* persist_search_results: the Search row and its n SearchResult rows
search_row(q, n) == [query |-> q, cars |-> n]

\* search_cars: `if cars: persist_search_results(...)`, load_cars_from_search,
\* `return SearchResponse(success=True, count=len(car_results), ...)`;
\* the database may refuse the write
Respond(r) ==
    /\ pc[r] = "persist"
    /\ \E dbok \in BOOLEAN :
         IF cars[r] > 0 /\ ~dbok
         THEN /\ SearchError(r)
              /\ UNCHANGED <<persisted, count, history>>
         ELSE /\ persisted' = [persisted EXCEPT ![r] = (cars[r] > 0)]
              /\ history' = IF cars[r] > 0
                            THEN Append(history, search_row(request_query(r), cars[r]))
                            ELSE history
              /\ count' = [count EXCEPT ![r] = response_count(cars[r])]
              /\ outcome' = [outcome EXCEPT ![r] = response_status(cars[r])]
              /\ pc' = [pc EXCEPT ![r] = "done"]
    /\ UNCHANGED <<ledgerVars, sess, reqLedgerVars, runs, provider, cars,
                   timedOut, adminVars, offlineVars, hpc, hresp, hruns, billingVars>>

(* ------------------ GET /api/search/personalized ---------------------- *)

\* the Search row a query sorted by created_at ascending puts first
oldest(h) == h[1]

\* load_latest_results_for_user / get_user_history(limit=1):
\* `.order_by(Search.created_at.desc()).first()`
latest(h) == h[Len(h)]

\* a search the user made before the requests modelled here
older_query == <<"older", 0>>

\* get_personalized_results: the query built from the user's preferences
preference_query == <<"preferences", 0>>

\* get_personalized_results: build_user_context, load_latest_results_for_user,
\* `if existing_cars: return SearchResponse(query=last_searches[0].query,
\* count=len(existing_cars), ...)`; otherwise go on to the preference search
PersonalizedLoad ==
    /\ hpc = "idle"
    /\ IF history # <<>>
       THEN /\ hresp' = [status |-> 200, query |-> latest(history).query,
                         count |-> loaded_count(latest(history).cars),
                         source |-> "stored"]
            /\ hpc' = "done"
       ELSE /\ hpc' = "search"
            /\ UNCHANGED hresp
    /\ UNCHANGED <<ledgerVars, pc, sess, outcome, reqLedgerVars, pipeVars,
                   adminVars, history, hruns, billingVars, offlineVars>>

\* get_personalized_results: `await asyncio.wait_for(execute_search(query,
\* user_context, db), ...)`, `if cars: persist_search_results(...)`, the
\* response; 408 on TimeoutError, 500 on any other exception
PersonalizedSearch ==
    /\ hpc = "search"
    /\ hruns' = hruns + 1
    /\ \E ev \in {"ok", "timeout", "error"}, n \in 0..MaxCars :
         /\ history' = IF ev = "ok" /\ n > 0
                       THEN Append(history, search_row(preference_query, capped(n)))
                       ELSE history
         /\ hresp' = IF ev = "ok"
                     THEN [status |-> 200, query |-> preference_query,
                           count |-> response_count(capped(n)), source |-> "fresh"]
                     ELSE [status |-> IF ev = "timeout" THEN 408 ELSE error_status,
                           query |-> <<"none", 0>>, count |-> 0, source |-> "none"]
    /\ hpc' = "done"
    /\ UNCHANGED <<ledgerVars, pc, sess, outcome, reqLedgerVars, pipeVars,
                   adminVars, billingVars, offlineVars>>

(* ------------------------- billing webhooks --------------------------- *)

\* event.id of the events Stripe delivers; the same event may come again
EventIds == 1..NumEvents

\* an event process_webhook has taken up: its type and id, the status of the
\* subscription it carries, and the HTTP status answered (0 while in flight)
delivery(t, id, st, resp) == [type |-> t, id |-> id, status |-> st, response |-> resp]

\* process_webhook: what the answer to the event in flight does to the log
answered(log, resp) == [log EXCEPT ![Len(log)].response = resp]

\* process_webhook: verify_webhook_signature, `checkout.session.completed`
\* with mode "payment"; handle_payment_success: `user = db.query(User)...first()`
PaymentLoad ==
    /\ adminPc = "idle"
    /\ adminOps < MaxAdminOps
    /\ adminPc' = "payment"
    /\ adminSess' = credits
    /\ \E id \in EventIds :
         deliveries' = Append(deliveries, delivery("checkout.session.completed", id, "complete", 0))
    /\ UNCHANGED <<ledgerVars, pc, sess, outcome, reqLedgerVars, pipeVars, adminOps,
                   offlineVars, homeVars, subscription>>

\* add_credits: `user.credits_remaining += amount; self.db.commit()`;
\* the UPDATE waits for the row lock
AddCredits ==
    /\ adminPc = "payment"
    /\ lockHolder = 0
    /\ credits' = adminSess + credits_to_add
    /\ adminPc' = "idle"
    /\ adminOps' = adminOps + 1
    /\ deliveries' = answered(deliveries, 200)
    /\ UNCHANGED <<unlimited, lockHolder, pc, sess, outcome, reqLedgerVars,
                   pipeVars, adminSess, offlineVars, homeVars, subscription>>

\* process_webhook: `except Exception as e: raise HTTPException(status_code=500)`,
\* here the commit of add_credits failing; nothing is written
PaymentError ==
    /\ adminPc = "payment"
    /\ adminPc' = "idle"
    /\ adminOps' = adminOps + 1
    /\ deliveries' = answered(deliveries, error_status)
    /\ UNCHANGED <<ledgerVars, pc, sess, outcome, reqLedgerVars,
                   pipeVars, adminSess, offlineVars, homeVars, subscription>>

\* set_unlimited, called by handle_subscription_created (True) and by
\* handle_subscription_updated / handle_subscription_deleted (False)
SetUnlimited(b) ==
    /\ adminPc = "idle"
    /\ adminOps < MaxAdminOps
    /\ lockHolder = 0
    /\ unlimited' = b
    /\ adminOps' = adminOps + 1
    /\ UNCHANGED <<credits, lockHolder, pc, sess, outcome, reqLedgerVars,
                   pipeVars, adminPc, adminSess, offlineVars, homeVars, billingVars>>

\* Subscription.status values Stripe sends
Statuses == {"active", "past_due", "unpaid", "canceled", "incomplete"}

\* a handler that ends the plan on a cancellation only
revoking_canceled_only == {"canceled"}

\* handle_subscription_updated: `subscription.status in ["canceled", "past_due", "unpaid"]`
revoking_statuses == {"canceled", "past_due", "unpaid"}

\* handle_subscription_created: the UserSubscription row is created or updated
\* with `status=subscription.status`, then `set_unlimited(user.id,
\* unlimited=True)` and the commit; the UPDATE waits for the row lock
SubscriptionCreated(id, st) ==
    /\ adminPc = "idle"
    /\ adminOps < MaxAdminOps
    /\ lockHolder = 0
    /\ subscription' = st
    /\ unlimited' = TRUE
    /\ adminOps' = adminOps + 1
    /\ deliveries' = Append(deliveries, delivery("customer.subscription.created", id, st, 200))
    /\ UNCHANGED <<credits, lockHolder, pc, sess, outcome, reqLedgerVars,
                   pipeVars, adminPc, adminSess, offlineVars, homeVars>>

\* handle_subscription_updated: `if user_subscription:` the status is
\* recorded, and a revoking status calls set_unlimited(False); without a row
\* nothing is written
SubscriptionUpdated(id, st) ==
    /\ adminPc = "idle"
    /\ adminOps < MaxAdminOps
    /\ (subscription # "none" /\ st \in revoking_statuses) => lockHolder = 0
    /\ subscription' = IF subscription # "none" THEN st ELSE subscription
    /\ unlimited' = IF subscription # "none" /\ st \in revoking_statuses
                    THEN FALSE ELSE unlimited
    /\ adminOps' = adminOps + 1
    /\ deliveries' = Append(deliveries, delivery("customer.subscription.updated", id, st, 200))
    /\ UNCHANGED <<credits, lockHolder, pc, sess, outcome, reqLedgerVars,
                   pipeVars, adminPc, adminSess, offlineVars, homeVars>>

\* handle_subscription_deleted: set_unlimited(False), and
\* `if user_subscription: user_subscription.status = "canceled"`
SubscriptionDeleted(id) ==
    /\ adminPc = "idle"
    /\ adminOps < MaxAdminOps
    /\ lockHolder = 0
    /\ unlimited' = FALSE
    /\ subscription' = IF subscription # "none" THEN "canceled" ELSE subscription
    /\ adminOps' = adminOps + 1
    /\ deliveries' = Append(deliveries, delivery("customer.subscription.deleted", id, "canceled", 200))
    /\ UNCHANGED <<credits, lockHolder, pc, sess, outcome, reqLedgerVars,
                   pipeVars, adminPc, adminSess, offlineVars, homeVars>>

(* ------------- Part 2: scrape_websites, Canadian branch --------------- *)

Scrapers == 1..NumScrapers
Vehicles == 1..NumVehicles
\* a gather slot: the coroutine not yet finished, or finished with its list
Pending == [done |-> FALSE, result |-> <<>>]
Finished(ls) == [done |-> TRUE, result |-> ls]

\* the `source` each scraper writes into its listings, in gather order
Sources == <<"AutoTrader.ca", "Kijiji", "CarGurus">>

\* a listing as _parse_single_listing of scraper i builds it: `"vin": ""`;
\* vehicle stands for its (brand, model, year, price)
ScraperListing(i, k) == [vin |-> "", vehicle |-> k, source |-> Sources[i], canadian |-> TRUE]

\* what scraper i can return: `listings` on success (one site does not list
\* the same vehicle twice), `[]` from its except clause
ScraperLists(i) ==
    UNION {{ls \in [1..n -> {ScraperListing(i, k) : k \in Vehicles}] :
              \A a, b \in 1..n : a # b => ls[a] # ls[b]} : n \in 0..MaxPerScraper}

\* a car as AutoDevAPI._convert_listings_to_car_format builds it
AutoDevListings ==
    [vin : {"", "VIN1", "VIN2"}, vehicle : Vehicles, source : {"Auto.dev"},
     canadian : BOOLEAN]

AutoDevLists == UNION {[1..n -> AutoDevListings] : n \in 0..1}

\* the results combined last adapter first
extend_all_reversed(results, i) ==
    results[3].result \o results[2].result \o results[1].result

RECURSIVE extend_all(_, _)
\* `for result in results: if isinstance(result, list): autotrader_cars.extend(result)`
extend_all(results, i) ==
    IF i > Len(results) THEN <<>>
    ELSE results[i].result \o extend_all(results, i + 1)

\* _filter_canadian_only
filter_canadian_only(cs) == SelectSeq(cs, LAMBDA c : c.canadian)

\* _filter_by_brand followed by _filter_by_model, for the vehicle asked for
filter_by_brand_model(cs, w) ==
    IF w = 0 THEN cs ELSE SelectSeq(cs, LAMBDA c : c.vehicle = w)

\* one of the three `scraper.search(...)` coroutines of asyncio.gather finishes
ScraperReturns(i) ==
    /\ mpc = "gather"
    /\ taskResult[i] = Pending
    /\ \E ls \in ScraperLists(i) : taskResult' = [taskResult EXCEPT ![i] = Finished(ls)]
    /\ UNCHANGED <<mpc, wanted, merged, adapterVars, onlineVars, toolVars>>

\* asyncio.gather returns once every coroutine has finished; the results
\* are combined in argument order
Combine ==
    /\ mpc = "gather"
    /\ \A i \in Scrapers : taskResult[i].done
    /\ merged' = extend_all(taskResult, 1)
    /\ mpc' = IF merged' = <<>> THEN "fallback" ELSE "filter"
    /\ UNCHANGED <<wanted, taskResult, adapterVars, onlineVars, toolVars>>

\* `if not autotrader_cars:` Auto.dev is asked and its cars are kept if Canadian
Fallback ==
    /\ mpc = "fallback"
    /\ \E ls \in AutoDevLists : merged' = filter_canadian_only(ls)
    /\ mpc' = "filter"
    /\ UNCHANGED <<wanted, taskResult, adapterVars, onlineVars, toolVars>>

\* brand / model filtering, then `return {"all_scraped_cars": ...}`
FilterAndReturn ==
    /\ mpc = "filter"
    /\ merged' = filter_by_brand_model(merged, wanted)
    /\ mpc' = "done"
    /\ UNCHANGED <<wanted, taskResult, adapterVars, onlineVars, toolVars>>

(* -------------- Part 3: price coercion in the adapters ---------------- *)

Chars == {"$", ",", "-", "0", "4", "a"}
Digits == {"0", "4"}
Strs(n) == UNION {[1..m -> Chars] : m \in 0..n}

Int_(n) == [t |-> "int", v |-> n]
Str_(x) == [t |-> "str", s |-> x]
Other == [t |-> "other"]

\* JSON values a raw listing may carry in a price field
RawPrices ==
    {None, Other} \cup {Int_(n) : n \in (0 - MaxPrice)..MaxPrice}
                  \cup {Str_(x) : x \in Strs(MaxStrLen)}

RawListings ==
    [price : RawPrices,
     price_cad : {None, Int_(0), Int_(MaxPrice)},
     price_str : {None} \cup {Str_(x) : x \in Strs(1)}]

digit_val(c) == IF c = "4" THEN 4 ELSE 0

RECURSIVE digits_val(_)
\* the value of a string of decimal digits
digits_val(x) ==
    IF Len(x) = 0 THEN 0
    ELSE 10 * digits_val(SubSeq(x, 1, Len(x) - 1)) + digit_val(x[Len(x)])

\* `s.replace(a, "")` / re.sub: the characters of x that are not in drop
without(x, drop) == SelectSeq(x, LAMBDA c : c \notin drop)

all_digits(x) == Len(x) > 0 /\ \A j \in 1..Len(x) : x[j] \in Digits

\* Python int(x) for a str: an optional sign followed by digits, else ValueError
py_int_ok(x) ==
    \/ all_digits(x)
    \/ Len(x) > 1 /\ x[1] = "-" /\ all_digits(Tail(x))

py_int(x) == IF x[1] = "-" THEN 0 - digits_val(Tail(x)) ELSE digits_val(x)

\* Python truthiness of a raw value
truthy(p) ==
    CASE p.t = "int" -> p.v # 0
      [] p.t = "str" -> Len(p.s) > 0
      [] p.t = "other" -> TRUE
      [] OTHER -> FALSE

\* Python `a or b`
py_or(a, b) == IF truthy(a) THEN a ELSE b

\* the converted price rounded to the nearest integer
to_cad_rounded(n) == (n * 135 + 50) \div 100

\* int(raw_price * 1.35) for a positive integer price
to_cad(n) == (n * 135) \div 100

\* AutoDevAPI._convert_listings_to_car_format, the price of one listing:
\* the converted price, or None when the listing is skipped
autodev_price(l, c) ==
    LET p == l.price
        parsed ==
            IF p.t = "str"
            THEN (IF py_int_ok(without(p.s, {"$", ","}))
                  THEN Int_(py_int(without(p.s, {"$", ","})))
                  ELSE None)
            ELSE IF p.t = "int" THEN p
            ELSE None
    IN  IF parsed = None THEN None
        ELSE IF parsed.v = 0 \/ parsed.v <= 0 THEN None
        ELSE IF c = "CA" THEN Int_(to_cad(parsed.v))
        ELSE parsed

\* AutoTraderCA._extract_price
extract_price(p) ==
    CASE p.t = "int" -> Int_(p.v)
      [] p.t = "str" -> Int_(digits_val(without(p.s, Chars \ Digits)))
      [] OTHER -> Int_(0)

\* AutoTraderCA._convert_listings_to_car_format, the price of one listing:
\* `price_cad or _extract_price(price) or _extract_price(price_str)`,
\* skipped `if price == 0`
autotrader_ca_price(l) ==
    LET p == py_or(l.price_cad, py_or(extract_price(l.price), extract_price(l.price_str)))
    IN  IF p = Int_(0) THEN None ELSE p

\* the cars list an adapter returns for the one raw listing
cars_of(p, src) == IF p = None THEN <<>> ELSE <<[price |-> p, source |-> src]>>

\* `if target_country == "CA" and isinstance(car["price"], (int, float)):
\* car["display_currency"] = "CAD"`; "none" for a car without the key
display_currency(c) == IF c = "CA" THEN "CAD" ELSE "none"

\* the cars cs with their display_currency key
tag_currency(cs, cur) ==
    [i \in 1..Len(cs) |->
        [price |-> cs[i].price, source |-> cs[i].source, display_currency |-> cur]]

\* AutoDevAPI._convert_listings_to_car_format
AutoDevConvert ==
    /\ converted = "none"
    /\ raw # NoRaw
    /\ emitted' = tag_currency(cars_of(autodev_price(raw, country), "Auto.dev"),
                               display_currency(country))
    /\ converted' = "autodev"
    /\ UNCHANGED <<raw, country, mergeVars, onlineVars, toolVars>>

\* AutoTraderCA._convert_listings_to_car_format
AutoTraderCAConvert ==
    /\ converted = "none"
    /\ raw # NoRaw
    /\ emitted' = tag_currency(cars_of(autotrader_ca_price(raw), "AutoTrader.ca"), "CAD")
    /\ converted' = "autotrader_ca"
    /\ UNCHANGED <<raw, country, mergeVars, onlineVars, toolVars>>

\* MarketCheckAPI._convert_listings_to_car_format: the price is parsed,
\* tested and converted by the same statements as in AutoDevAPI
MarketCheckConvert ==
    /\ converted = "none"
    /\ raw # NoRaw
    /\ emitted' = tag_currency(cars_of(autodev_price(raw, country), "MarketCheck"),
                               display_currency(country))
    /\ converted' = "marketcheck"
    /\ UNCHANGED <<raw, country, mergeVars, onlineVars, toolVars>>

(* ----------------------- texts and geo resolution ---------------------- *)

\* the letters, lower and upper case in the same order
LowerLetters == <<"a", "b", "c", "d", "e", "f", "g", "h", "i", "j", "k", "l", "m",
                  "n", "o", "p", "q", "r", "s", "t", "u", "v", "w", "x", "y", "z">>
UpperLetters == <<"A", "B", "C", "D", "E", "F", "G", "H", "I", "J", "K", "L", "M",
                  "N", "O", "P", "Q", "R", "S", "T", "U", "V", "W", "X", "Y", "Z">>
DecimalDigits == {"0", "1", "2", "3", "4", "5", "6", "7", "8", "9"}

\* str.lower, one character
lower_char(c) ==
    IF \E i \in DOMAIN UpperLetters : UpperLetters[i] = c
    THEN LowerLetters[CHOOSE i \in DOMAIN UpperLetters : UpperLetters[i] = c] ELSE c

\* str.upper, one character
upper_char(c) ==
    IF \E i \in DOMAIN LowerLetters : LowerLetters[i] = c
    THEN UpperLetters[CHOOSE i \in DOMAIN LowerLetters : LowerLetters[i] = c] ELSE c

\* str.lower
py_lower(w) == [i \in 1..Len(w) |-> lower_char(w[i])]

\* str.upper
py_upper(w) == [i \in 1..Len(w) |-> upper_char(w[i])]

\* `needle in hay` for two strings
contains(needle, hay) ==
    \E i \in 0..Len(hay) :
        /\ i + Len(needle) <= Len(hay)
        /\ SubSeq(hay, i + 1, i + Len(needle)) = needle

\* `results[:10]`, `cleaned[:3]`
first_n(cs, n) == IF Len(cs) > n THEN SubSeq(cs, 1, n) ELSE cs

\* `postal_code.replace(" ", "")`
without_spaces(w) == SelectSeq(w, LAMBDA c : c # " ")

RECURSIVE py_strip(_)
\* str.strip
py_strip(w) ==
    IF w = <<>> THEN w
    ELSE IF w[1] = " " THEN py_strip(Tail(w))
    ELSE IF w[Len(w)] = " " THEN py_strip(SubSeq(w, 1, Len(w) - 1))
    ELSE w

\* `re.sub(r"[^A-Za-z0-9]", "", postal_code)`
alnum_only(w) ==
    SelectSeq(w, LAMBDA c : \/ c \in DecimalDigits
                            \/ \E i \in DOMAIN LowerLetters :
                                  c = LowerLetters[i] \/ c = UpperLetters[i])

\* str.isdigit
py_isdigit(w) == w # <<>> /\ \A i \in 1..Len(w) : w[i] \in DecimalDigits

\* the character classes of the Canadian postal code pattern:
\* [ABCEGHJ-NPRSTVXY] and [ABCEGHJ-NPRSTV-Z]
FirstLetters == {"A", "B", "C", "E", "G", "H", "J", "K", "L", "M", "N", "P", "R",
                 "S", "T", "V", "X", "Y"}
OtherLetters == FirstLetters \cup {"W", "Z"}

\* POSTAL_CODE_PATTERN.match: letter digit letter digit letter digit
six_char_postal(w) ==
    /\ Len(w) = 6
    /\ w[1] \in FirstLetters /\ w[2] \in DecimalDigits /\ w[3] \in OtherLetters
    /\ w[4] \in DecimalDigits /\ w[5] \in OtherLetters /\ w[6] \in DecimalDigits

\* scrape_websites._is_canadian_postal: strip, upper, the pattern with an
\* optional white space in the middle
is_canadian_postal(w) ==
    LET n == py_upper(py_strip(w)) IN
    \/ six_char_postal(n)
    \/ Len(n) = 7 /\ n[4] = " " /\ six_char_postal(SubSeq(n, 1, 3) \o SubSeq(n, 5, 7))

\* AutoTraderCA._normalize_postal; <<>> for None
normalize_postal(w) ==
    IF w = <<>> THEN <<>>
    ELSE IF six_char_postal(py_upper(alnum_only(w))) THEN py_upper(alnum_only(w))
    ELSE <<>>

CA == <<"C", "A">>
US == <<"U", "S">>

\* the postal codes the geocoder of a country has a record for: pgeocode holds
\* Canada by forward sortation area, the first three characters
geocoder_keys(c) ==
    IF c = CA THEN {<<"M", "5", "H">>, <<"V", "5", "K">>}
    ELSE IF c = US THEN {<<"9", "0", "2", "1", "0">>}
    ELSE {}

\* the countries AutoDevAPI has a geocoder for
geocoders == {CA, US}

\* a lookup that returned None
NotFound == [found |-> FALSE, coords |-> <<>>, postal |-> <<>>]

\* _postal_to_latlon looking up the whole cleaned code
postal_to_latlon_whole(postal, c) ==
    LET cleaned == py_upper(without_spaces(postal)) IN
    IF postal = <<>> \/ c \notin geocoders \/ cleaned \notin geocoder_keys(c)
    THEN NotFound
    ELSE [found |-> TRUE, coords |-> <<"at">> \o cleaned, postal |-> cleaned]

\* AutoDevAPI._postal_to_latlon: the coordinates of a record are named by
\* its key, and `record.postal_code` is that key
postal_to_latlon(postal, c) ==
    LET upper == py_upper(without_spaces(postal))
        cleaned == IF c = CA THEN first_n(upper, 3) ELSE upper
    IN  IF postal = <<>> \/ c \notin geocoders \/ cleaned \notin geocoder_keys(c)
        THEN NotFound
        ELSE [found |-> TRUE, coords |-> <<"at">> \o cleaned, postal |-> cleaned]

\* CANADIAN_CITY_POSTALS, its first two entries in order
CANADIAN_CITY_POSTALS ==
    <<[city |-> <<"v", "a", "n", "c", "o", "u", "v", "e", "r">>, postal |-> <<"V", "5", "K">>],
      [city |-> <<"t", "o", "r", "o", "n", "t", "o">>, postal |-> <<"M", "5", "H">>]>>

\* AutoDevAPI._city_to_postal; <<>> for None
city_to_postal(location, c) ==
    LET hits == {i \in 1..Len(CANADIAN_CITY_POSTALS) :
                    contains(CANADIAN_CITY_POSTALS[i].city, py_lower(location))}
    IN  IF location = <<>> \/ c # CA \/ hits = {} THEN <<>>
        ELSE CANADIAN_CITY_POSTALS[CHOOSE i \in hits : \A j \in hits : i <= j].postal

\* AutoDevAPI._resolve_geo_targets
resolve_geo_targets(q) ==
    LET c == py_upper(IF q.country = <<>> THEN US ELSE q.country)
        first == IF q.postal_code # <<>> THEN postal_to_latlon(q.postal_code, c)
                 ELSE NotFound
        fallback_postal == IF ~first.found /\ q.location # <<>>
                           THEN city_to_postal(q.location, c) ELSE <<>>
        second == IF fallback_postal # <<>> THEN postal_to_latlon(fallback_postal, c)
                  ELSE NotFound
        lookup == IF second.found THEN second ELSE first
    IN  [country |-> c, coords |-> lookup.coords, postal |-> lookup.postal]

\* AutoTraderCA CITY_PROVINCE_MAP, the postal code of two of its cities
CITY_PROVINCE_MAP ==
    <<[city |-> <<"v", "a", "n", "c", "o", "u", "v", "e", "r">>, postal |-> <<"V", "5", "K", "0", "A", "1">>],
      [city |-> <<"t", "o", "r", "o", "n", "t", "o">>, postal |-> <<"M", "5", "H", "2", "N", "2">>]>>

\* AutoTraderCA._resolve_location_context, the postal code of the context:
\* the normalised postal code, else the matched city's, else the default
\* (Toronto's); no coordinates are looked up
resolve_location_context(q) ==
    LET hits == {i \in 1..Len(CITY_PROVINCE_MAP) :
                    contains(CITY_PROVINCE_MAP[i].city, py_lower(q.location))}
        normalized == normalize_postal(q.postal_code)
    IN  [country |-> CA, coords |-> <<>>,
         postal |-> IF normalized # <<>> THEN normalized
                    ELSE IF hits # {}
                         THEN CITY_PROVINCE_MAP[CHOOSE i \in hits : \A j \in hits : i <= j].postal
                    ELSE CITY_PROVINCE_MAP[2].postal]

\* MarketCheckAPI._add_location_params, the zip it sends: a five-digit US ZIP
marketcheck_zip(q) ==
    LET c == py_upper(IF q.country = <<>> THEN US ELSE q.country)
        clean_zip == without_spaces(py_strip(q.postal_code))
    IN  [country |-> c, coords |-> <<>>,
         postal |-> IF c = US /\ py_isdigit(clean_zip) /\ Len(clean_zip) = 5
                    THEN clean_zip ELSE <<>>]

\* the geo target an adapter puts into its request; the AutoTrader scraper
\* writes location and postal code into its URL as they are
geo_target(a, q) ==
    IF a = "autodev" THEN resolve_geo_targets(q)
    ELSE IF a = "autotrader_ca" THEN resolve_location_context(q)
    ELSE IF a = "marketcheck" THEN marketcheck_zip(q)
    ELSE [country |-> q.country, coords |-> <<>>, postal |-> q.postal_code]

\* who calls an adapter's search
Callers == {"search_car_listings", "scrape_websites"}

\* the query_params the caller hands to the adapter: scrape_websites, for a
\* Canadian query (country missing counts as "CA"), pops a postal code that
\* is not Canadian; search_car_listings passes the postal code on
query_params_of(who, q) ==
    IF /\ who = "scrape_websites"
       /\ q.country \in {<<>>, CA}
       /\ q.postal_code # <<>>
       /\ ~is_canadian_postal(q.postal_code)
    THEN [q EXCEPT !.postal_code = <<>>]
    ELSE q

\* scrape_websites: `country = query_params.get("country", "CA")`,
\* `is_canadian = country == "CA"`
route_is_canadian(q) == q.country \in {<<>>, CA}

\* _convert_listings_to_car_format: `target_country = (query_params or
\* {}).get("country") or "CA"` in AutoDevAPI, `or "US"` in MarketCheckAPI;
\* the value is compared as it is written
target_country(a, q) ==
    IF q.country # <<>> THEN q.country
    ELSE IF a = "marketcheck" THEN US ELSE CA

\* the display_currency of the listings an adapter returns: AutoDevAPI and
\* MarketCheckAPI tag "CAD" when they converted, the Canadian site is in CAD
listing_currency(a, q) ==
    IF a = "autotrader_ca" THEN "CAD"
    ELSE IF a \in {"autodev", "marketcheck"} /\ target_country(a, q) = CA THEN "CAD"
    ELSE "none"

\* the postal codes, locations and countries of the queries explored
PostalInputs ==
    {<<>>, <<"M", "5", "H", " ", "2", "N", "2">>, <<"m", "5", "h", "2", "n", "2">>, <<"M", "5", "H", " ", "9">>, <<"Q", "1", "Q", " ", "1", "Q", "1">>, <<"X", "0", "X", " ", "0", "X", "0">>, <<"9", "0", "2", "1", "0">>}
LocationInputs == {<<>>, <<"V", "a", "n", "c", "o", "u", "v", "e", "r">>, <<"O", "s", "l", "o">>}
CountryInputs == {<<>>, CA, <<"c", "a">>, US, <<"M", "X">>}

(* ------- Part 4: an adapter's search call under its retry policy ------ *)

\* the adapters whose search is modelled
Adapters == {"autodev", "marketcheck", "autotrader_ca", "autotrader_scraper"}

\* the adapters that have an `enabled` flag (an API key may be missing)
Keyed == {"autodev", "marketcheck", "autotrader_ca"}

\* what one attempt meets: a good response, a transport failure
\* (connection error, HTTP error status), or a response that cannot be parsed
AttemptEvents == {"ok", "transport_error", "parse_error"}

\* a search body that lets a transport failure escape to the retry decorator
search_body_reraising(en, ev, n) ==
    IF ~en THEN [raised |-> FALSE, cars |-> 0]
    ELSE IF ev = "ok" THEN [raised |-> FALSE, cars |-> n]
    ELSE [raised |-> TRUE, cars |-> 0]

\* the body of search_listings / search for one attempt: `if not
\* self.enabled: return []`, then the try block, whose `except Exception`
\* returns []
search_body(en, ev, n) ==
    IF ~en THEN [raised |-> FALSE, cars |-> 0]
    ELSE IF ev = "ok" THEN [raised |-> FALSE, cars |-> n]
    ELSE [raised |-> FALSE, cars |-> 0]

\* `@retry(stop=stop_after_attempt(3), ...)`; the scraper has no decorator
max_attempts(a) == IF a \in Keyed THEN 3 ELSE 1

\* one attempt of the search call: the body runs; the decorator returns its
\* value, or, when the body raised, waits and calls it again until
\* max_attempts is used up and then raises RetryError (reraise=False)
Attempt ==
    /\ spc = "calling"
    /\ \E ev \in AttemptEvents, n \in 0..MaxCars :
         LET o == search_body(enabled, ev, n) IN
         /\ tried' = Append(tried, IF enabled THEN ev ELSE "not_sent")
         /\ gtarget' = IF enabled
                       THEN geo_target(adapter, query_params_of(caller, gquery))
                       ELSE gtarget
         /\ scurrency' = IF enabled /\ ev = "ok"
                         THEN listing_currency(adapter, query_params_of(caller, gquery))
                         ELSE scurrency
         /\ IF ~o.raised
            THEN /\ spc' = "returned"
                 /\ sresult' = o.cars
            ELSE /\ spc' = IF Len(tried') < max_attempts(adapter)
                           THEN "calling" ELSE "raised"
                 /\ UNCHANGED sresult
    /\ UNCHANGED <<adapter, enabled, caller, gquery, onlineVars, mergeVars, adapterVars,
                   rankVars, pageVars, filterVars>>

(* ------------- Part 5: ranking, persistence and loading --------------- *)

\* what ranking and persistence read of a car; id is its position in the
\* list handed to ranking
\*   qbrand  `car.get("brand", "").lower() in query_lower`
\*   qmodel  `car.get("model", "").lower() in query_lower`
\*   pbrand  `car.get("brand") in user_preferences.get("preferred_brands", [])`
\*   ptype   a preferred type is among the car's features
\*   price   `car.get("price")` is truthy
\*   images  `car.get("images")` is truthy
\*   vin     `car_data.get("vin")` is truthy
\*   dbid    `car.get("id")` is truthy
Flags == {"qbrand", "qmodel", "pbrand", "ptype", "price", "images", "vin", "dbid"}

\* the flags that vary among the cars of a ranked list
ListFlags == {"qbrand", "images", "vin", "dbid"}

\* a car whose flags in on are true
Car(i, on) == [id |-> i, on |-> on]

\* rank_cars_by_relevance.calculate_score
calculate_score(c, p) ==
    50 + (IF "qbrand" \in c.on THEN 20 ELSE 0)
       + (IF "qmodel" \in c.on THEN 20 ELSE 0)
       + (IF p /\ "pbrand" \in c.on THEN 15 ELSE 0)
       + (IF p /\ "ptype" \in c.on THEN 10 ELSE 0)
       - (IF "price" \in c.on THEN 0 ELSE 10)
       - (IF "images" \in c.on THEN 0 ELSE 5)

\* `for car in cars: car["match_score"] = calculate_score(car)`
with_scores(cs, p) ==
    [i \in 1..Len(cs) |->
        [id |-> cs[i].id, on |-> cs[i].on, match_score |-> calculate_score(cs[i], p)]]

\* c placed before the cars of out that score no more than it does
insert_before_equal(out, c) ==
    LET k == Cardinality({j \in 1..Len(out) : out[j].match_score > c.match_score})
    IN  SubSeq(out, 1, k) \o <<c>> \o SubSeq(out, k + 1, Len(out))

\* one step of the stable descending sort: c goes after every car of out
\* (sorted, non-increasing) that scores at least as much
insert_after_equal(out, c) ==
    LET k == Cardinality({j \in 1..Len(out) : out[j].match_score >= c.match_score})
    IN  SubSeq(out, 1, k) \o <<c>> \o SubSeq(out, k + 1, Len(out))

RECURSIVE sorted_desc(_)
\* `sorted(cars, key=lambda x: x.get("match_score", 0), reverse=True)`:
\* Python's sort is stable, also with reverse=True
sorted_desc(cs) ==
    IF Len(cs) = 0 THEN <<>>
    ELSE insert_after_equal(sorted_desc(SubSeq(cs, 1, Len(cs) - 1)), cs[Len(cs)])

\* rank_cars_by_relevance
Rank ==
    /\ rpc = "input"
    /\ ranked' = sorted_desc(with_scores(rcars, prefs))
    /\ rpc' = "ranked"
    /\ UNCHANGED <<rcars, prefs, stored, shown, onlineVars, mergeVars,
                   adapterVars, searchVars, pageVars, filterVars>>

\* the stored fraction for a score: `if match_score > 1: match_score / 100.0`,
\* kept here in hundredths
stored_score(sc) == IF sc > 1 THEN sc ELSE sc * 100

\* the hundredths h for which int((h / 100.0) * 100) is h - 1 in IEEE-754
\* double arithmetic, among 0..200
Lossy == {29, 57, 58, 113, 114, 115, 116}

\* load_cars_from_search: `match=int((sr.match_score or 0) * 100)`
match_percent(h) == IF h \in Lossy THEN h - 1 ELSE h

\* the ranks numbered by position in the list handed over, skipped cars
\* included
rows_numbered_by_position(cs, need, score) ==
    LET idx == {i \in 1..Len(cs) : need \subseteq cs[i].on}
        nth(k) == CHOOSE i \in idx : Cardinality({j \in idx : j < i}) = k - 1
    IN  [k \in 1..Cardinality(idx) |->
            [car |-> cs[nth(k)].id, rank |-> nth(k), match_score |-> score[nth(k)]]]

\* the SearchResult rows for the cars of cs that have the flags of need,
\* ranked by a counter of the rows written so far; score[i] is the
\* match_score stored for cs[i]
rows_numbered_by_count(cs, need, score) ==
    LET idx == {i \in 1..Len(cs) : need \subseteq cs[i].on}
        nth(k) == CHOOSE i \in idx : Cardinality({j \in idx : j < i}) = k - 1
    IN  [k \in 1..Cardinality(idx) |->
            [car |-> cs[nth(k)].id, rank |-> k, match_score |-> score[nth(k)]]]

\* router.persist_search_results: every car, `rank=i + 1`
PersistSearchResults ==
    /\ rpc = "ranked"
    /\ stored' = rows_numbered_by_count(ranked, {},
                    [i \in 1..Len(ranked) |-> stored_score(ranked[i].match_score)])
    /\ rpc' = "stored"
    /\ UNCHANGED <<rcars, prefs, ranked, shown, onlineVars, mergeVars,
                   adapterVars, searchVars, pageVars, filterVars>>

\* search_tools.save_search_results: the first ten cars, those without a
\* VIN skipped, `rank=saved_count + 1`, match_score from "relevance_score"
SaveSearchResults ==
    /\ rpc = "ranked"
    /\ stored' = rows_numbered_by_count(first_n(ranked, save_cap), {"vin"},
                                        [i \in 1..Len(ranked) |-> 0])
    /\ rpc' = "stored"
    /\ UNCHANGED <<rcars, prefs, ranked, shown, onlineVars, mergeVars,
                   adapterVars, searchVars, pageVars, filterVars>>

\* save_history: `for rank, car in enumerate(matched_cars, start=1)`, a row
\* only `if car_id`, match_score from "score"
SaveHistory ==
    /\ rpc = "ranked"
    /\ stored' = rows_numbered_by_position(ranked, {"dbid"},
                                           [i \in 1..Len(ranked) |-> 0])
    /\ rpc' = "stored"
    /\ UNCHANGED <<rcars, prefs, ranked, shown, onlineVars, mergeVars,
                   adapterVars, searchVars, pageVars, filterVars>>

\* load_cars_from_search: the rows of the search by rank, at most
\* max_search_results of them
LoadCars ==
    /\ rpc = "stored"
    /\ shown' = [k \in 1..Len(first_n(stored, max_search_results)) |->
                    match_percent(stored[k].match_score)]
    /\ rpc' = "loaded"
    /\ UNCHANGED <<rcars, prefs, ranked, stored, onlineVars, mergeVars,
                   adapterVars, searchVars, pageVars, filterVars>>

(* ------------------------ Part 6: limit and page ----------------------- *)

\* the limits a search is made with
Limits == {default_search_limit \div 2, default_search_limit}

\* the query_params search_car_listings builds: its signature has no limit
\* and no page, so neither key is ever set
tool_query_params(limit, page) == [k \in {} |-> 0]

\* query_params as a caller of the adapter that pages would build them
paged_query_params(limit, page) == [limit |-> limit, page |-> page]

\* `query_params.get("limit", 20)`
rows_of(qp) == IF "limit" \in DOMAIN qp THEN qp["limit"] ELSE default_page_size

\* `query_params.get("page", 1)`
page_of(qp) == IF "page" \in DOMAIN qp THEN qp["page"] ELSE 1

\* MarketCheckAPI._build_api_params: `start = (page - 1) * rows`
start_of(qp) == (page_of(qp) - 1) * rows_of(qp)

\* the provider's answer: rows listings of its n from offset start on,
\* named by their 1-based place in the provider's ranked set
window(n, start, rows) ==
    LET last == IF start + rows < n THEN start + rows ELSE n
    IN  [k \in 1..(IF last > start THEN last - start ELSE 0) |-> start + k]

\* adapter.search_listings(query_params)
search_listings(qp, n) == window(n, start_of(qp), rows_of(qp))

\* execute_search -> search_car_listings: limit and page are passed by the
\* router and dropped by the tool; `cars[:15]`
SearchCarListings ==
    /\ ppc = "request"
    /\ plimit = default_search_limit
    /\ ppage = 1
    /\ presults' = first_n(search_listings(tool_query_params(plimit, ppage), snapshot),
                           agent_result_cap)
    /\ ppc' = "searched"
    /\ UNCHANGED <<snapshot, plimit, ppage, onlineVars, mergeVars, adapterVars,
                   searchVars, rankVars, filterVars>>

\* persist_search_results then load_cars_from_search: every car stored, the
\* first max_search_results by rank returned
LoadResponse ==
    /\ ppc = "searched"
    /\ presults' = first_n(presults, max_search_results)
    /\ ppc' = "answered"
    /\ UNCHANGED <<snapshot, plimit, ppage, onlineVars, mergeVars, adapterVars,
                   searchVars, rankVars, filterVars>>

\* the adapter called with limit and page in its query_params
SearchListingsPaged ==
    /\ ppc = "request"
    /\ presults' = search_listings(paged_query_params(plimit, ppage), snapshot)
    /\ ppc' = "paged"
    /\ UNCHANGED <<snapshot, plimit, ppage, onlineVars, mergeVars, adapterVars,
                   searchVars, rankVars, filterVars>>

(* ------------------------ Part 7: the filter tool ---------------------- *)

\* the characters of the texts explored: a letter in both cases and another
Letters == {"r", "R", "x"}

\* the texts of at most n letters
Words(n) == UNION {[1..m -> Letters] : m \in 0..n}

\* has_features with the colour of the car read as a third field
has_features_or_color(car, req) ==
    \A k \in 1..Len(req) :
        \/ \E j \in 1..Len(car.features) :
              contains(py_lower(req[k]), py_lower(car.features[j]))
        \/ contains(py_lower(req[k]), py_lower(car.description))
        \/ contains(py_lower(req[k]), py_lower(car.color))

\* filter_cars_by_criteria.has_features
has_features(car, req) ==
    \A k \in 1..Len(req) :
        \/ \E j \in 1..Len(car.features) :
              contains(py_lower(req[k]), py_lower(car.features[j]))
        \/ contains(py_lower(req[k]), py_lower(car.description))

\* `isinstance(c.get("price"), (int, float)) and c["price"] >= min_price`
price_at_least(car, lo) == car.price # <<>> /\ car.price[1] >= lo

\* `isinstance(c.get("price"), (int, float)) and c["price"] <= max_price`
price_at_most(car, hi) == car.price # <<>> /\ car.price[1] <= hi

\* `c.get("brand", "").lower() in [b.lower() for b in preferred_brands]`
brand_preferred(car, brands) ==
    \E j \in 1..Len(brands) : py_lower(car.brand) = py_lower(brands[j])

\* whether filter_cars_by_criteria keeps the car; a criterion that is None,
\* 0 or an empty list is not applied
keeps(car, c) ==
    /\ c.min_price # 0 => price_at_least(car, c.min_price)
    /\ c.max_price # 0 => price_at_most(car, c.max_price)
    /\ c.required_features # <<>> => has_features(car, c.required_features)
    /\ c.preferred_brands # <<>> => brand_preferred(car, c.preferred_brands)

\* filter_cars_by_criteria
FilterCars ==
    /\ fpc = "called"
    /\ filtered' = IF keeps(fcar, criteria) THEN <<fcar>> ELSE <<>>
    /\ fpc' = "done"
    /\ UNCHANGED <<fcar, criteria, onlineVars, mergeVars, adapterVars,
                   searchVars, rankVars, pageVars>>

(* -------------------------- specifications ---------------------------- *)

ReqActions(r) ==
    \/ Authenticate(r)
    \/ CheckQuota(r)
    \/ DeductLock(r)
    \/ DeductBody(r)
    \/ StartSearch(r)
    \/ ExtractFeatures(r)
    \/ ProviderCall(r)
    \/ Summarize(r)
    \/ Timeout(r)
    \/ Respond(r)

RequestStep == \E r \in Reqs : ReqActions(r)

\* a request up to the start of its search: the quota check and deduct_credit
LedgerActions(r) ==
    \/ Authenticate(r)
    \/ CheckQuota(r)
    \/ DeductLock(r)
    \/ DeductBody(r)

AdminStep ==
    \/ PaymentLoad
    \/ AddCredits
    \/ \E b \in BOOLEAN : SetUnlimited(b)

Next == RequestStep \/ AdminStep

\* overlapping search requests and billing webhooks on one account
Spec == Init /\ [][Next]_vars

\* two overlapping requests on an account with one credit, no webhook
InitRace ==
    /\ credits = 1
    /\ unlimited = FALSE
    /\ lockHolder = 0
    /\ ReqInit
    /\ AdminInit
    /\ HomeInit
    /\ BillingInit
    /\ OfflineIdle

SpecRace == InitRace /\ [][RequestStep]_vars

\* one search request handled alone
SoloStep == ReqActions(1)

SpecSolo == Init /\ [][SoloStep]_vars

\* the online part at rest
\* one POST /api/search and one GET /api/search/personalized of the same
\* user, who may have searched before
HomeStep == ReqActions(1) \/ PersonalizedLoad \/ PersonalizedSearch
InitHome ==
    /\ credits \in 0..MaxInitCredits
    /\ unlimited \in BOOLEAN
    /\ lockHolder = 0
    /\ ReqInit
    /\ AdminInit
    /\ history \in {<<>>, <<search_row(older_query, 1)>>}
    /\ hpc = "idle"
    /\ hresp = NoResponse
    /\ hruns = 0
    /\ BillingInit
    /\ OfflineIdle
SpecHome == InitHome /\ [][HomeStep]_vars

\* the Stripe webhooks of one customer, who starts without a plan or with an
\* active one, beside the quota check and deduct_credit of one POST
\* /api/search of that user
BillingStep ==
    \/ LedgerActions(1)
    \/ PaymentLoad
    \/ AddCredits
    \/ PaymentError
    \/ \E id \in EventIds, st \in Statuses : SubscriptionCreated(id, st)
    \/ \E id \in EventIds, st \in Statuses : SubscriptionUpdated(id, st)
    \/ \E id \in EventIds : SubscriptionDeleted(id)
InitBilling ==
    /\ credits \in 0..MaxInitCredits
    /\ \/ unlimited = FALSE /\ subscription = "none"
       \/ unlimited = TRUE /\ subscription = "active"
    /\ lockHolder = 0
    /\ ReqInit
    /\ AdminInit
    /\ HomeInit
    /\ deliveries = <<>>
    /\ OfflineIdle
SpecBilling == InitBilling /\ [][BillingStep]_vars

\* the quota check and the deduct_credit call of overlapping requests, up to
\* the start of the search, under a fair scheduler: the event loop resumes
\* every coroutine that can go on, and the database grants a released row
\* lock to a waiting transaction
LedgerStep == \E r \in Reqs : LedgerActions(r)
FairLedger ==
    \A r \in Reqs : WF_vars(LedgerActions(r))
SpecFair == Init /\ [][LedgerStep]_vars /\ FairLedger

OnlineIdle ==
    /\ credits = 0
    /\ unlimited = FALSE
    /\ lockHolder = 0
    /\ ReqInit
    /\ AdminInit
    /\ HomeInit
    /\ BillingInit

\* one run of scrape_websites for a Canadian query
InitMerge ==
    /\ OnlineIdle
    /\ mpc = "gather"
    /\ wanted \in 0..NumVehicles
    /\ taskResult = [i \in Scrapers |-> Pending]
    /\ merged = <<>>
    /\ AdaptersIdle
    /\ ToolsIdle

MergeStep ==
    \/ \E i \in Scrapers : ScraperReturns(i)
    \/ Combine
    \/ Fallback
    \/ FilterAndReturn

SpecMerge == InitMerge /\ [][MergeStep]_vars

\* one raw listing converted by one adapter
InitAdapters ==
    /\ OnlineIdle
    /\ MergeIdle
    /\ ToolsIdle
    /\ raw \in RawListings
    /\ country \in {"CA", "US"}
    /\ converted = "none"
    /\ emitted = <<>>

AdapterStep ==
    \/ AutoDevConvert
    \/ AutoTraderCAConvert
    \/ MarketCheckConvert

SpecAdapters == InitAdapters /\ [][AdapterStep]_vars

\* one search call of one adapter
InitSearch ==
    /\ OnlineIdle
    /\ MergeIdle
    /\ AdaptersIdle
    /\ adapter \in Adapters
    /\ enabled \in (IF adapter \in Keyed THEN BOOLEAN ELSE {TRUE})
    /\ spc = "calling"
    /\ tried = <<>>
    /\ sresult = 0
    /\ caller \in Callers
    /\ gquery \in [postal_code : PostalInputs, location : LocationInputs,
                    country : CountryInputs]
    /\ gtarget = NoTarget
    /\ scurrency = "none"
    /\ RankIdle
    /\ PageIdle
    /\ FilterIdle

SearchStep == Attempt

SpecSearch == InitSearch /\ [][SearchStep]_vars

\* the lists of at most n cars whose flags outside vary are all true
CarLists(n, vary) ==
    UNION {{cs \in [1..m -> {Car(0, (Flags \ vary) \cup on) : on \in SUBSET vary}] : TRUE}
            : m \in 0..n}

\* cs with each car given its position as id
numbered(cs) == [i \in 1..Len(cs) |-> Car(i, cs[i].on)]

RankStep ==
    \/ Rank
    \/ PersistSearchResults
    \/ SaveSearchResults
    \/ SaveHistory
    \/ LoadCars

\* a list of cars ranked, stored and loaded back
InitRank ==
    /\ OnlineIdle
    /\ MergeIdle
    /\ AdaptersIdle
    /\ SearchIdle
    /\ PageIdle
    /\ FilterIdle
    /\ \E cs \in CarLists(MaxRanked, ListFlags) : rcars = numbered(cs)
    /\ prefs \in BOOLEAN
    /\ rpc = "input"
    /\ ranked = <<>>
    /\ stored = <<>>
    /\ shown = <<>>

SpecRank == InitRank /\ [][RankStep]_vars

\* one car, with every combination of bonuses and penalties, scored,
\* stored and loaded back
InitScore ==
    /\ OnlineIdle
    /\ MergeIdle
    /\ AdaptersIdle
    /\ SearchIdle
    /\ PageIdle
    /\ FilterIdle
    /\ \E on \in SUBSET (Flags \ {"vin", "dbid"}) :
          rcars = <<Car(1, on \cup {"vin", "dbid"})>>
    /\ prefs \in BOOLEAN
    /\ rpc = "input"
    /\ ranked = <<>>
    /\ stored = <<>>
    /\ shown = <<>>

SpecScore == InitScore /\ [][RankStep]_vars

PageStep ==
    \/ SearchCarListings
    \/ LoadResponse
    \/ SearchListingsPaged

\* one search for a page of a provider's snapshot
InitPage ==
    /\ OnlineIdle
    /\ MergeIdle
    /\ AdaptersIdle
    /\ SearchIdle
    /\ RankIdle
    /\ FilterIdle
    /\ snapshot \in 0..MaxSnapshot
    /\ plimit \in Limits
    /\ ppage \in 1..MaxPage
    /\ ppc = "request"
    /\ presults = <<>>

SpecPage == InitPage /\ [][PageStep]_vars

\* the cars handed to the filter; price is <<>> for a car without a numeric
\* price
FilterCarsIn ==
    [features    : {<<>>} \cup {<<w>> : w \in Words(1) \ {<<>>}},
     description : Words(MaxFieldLen),
     color       : Words(1),
     price       : {<<>>, <<1>>, <<MaxPrice>>},
     brand       : {<<"R">>, <<"x">>}]

\* the criteria handed to the filter
FilterCriteria ==
    [min_price          : {0, 2},
     max_price          : {0, 2},
     required_features  : UNION {[1..m -> Words(1) \ {<<>>}] : m \in 0..MaxTokens},
     preferred_brands   : {<<>>, <<<<"r">>>>}]

FilterStep == FilterCars

\* one car handed to the filter tool
InitFilter ==
    /\ OnlineIdle
    /\ MergeIdle
    /\ AdaptersIdle
    /\ SearchIdle
    /\ RankIdle
    /\ PageIdle
    /\ fcar \in FilterCarsIn
    /\ criteria \in FilterCriteria
    /\ fpc = "called"
    /\ filtered = <<>>

SpecFilter == InitFilter /\ [][FilterStep]_vars

(* ------------------------------ claims -------------------------------- *)

\* request r is past its quota check and its deduct_credit call
Settled(r) == pc[r] \notin {"start", "check_quota", "deduct_lock", "deduct"}

\* request r was refused with the quota failure
Refused(r) == ~deducted[r] /\ outcome[r] = 402

\* the step in which the deduct_credit call of request r returns
DeductReturns(r) == pc[r] = "deduct" /\ pc'[r] # "deduct"

\* C1: with one credit and unlimited = false, two concurrent deduct_credit
\* calls end with exactly one success, one quota failure (402) and balance 0
C1_ExactlyOneSuccess ==
    (\A r \in Reqs : Settled(r)) =>
        /\ Cardinality({r \in Reqs : deducted[r]}) = 1
        /\ Cardinality({r \in Reqs : Refused(r)}) = 1
        /\ credits = 0

\* C2: credits_remaining >= 0 in every reachable state, and every
\* deduct_credit call lowers the balance by exactly one or leaves the
\* account unchanged
C2_NonNegativeAllOrNothing ==
    /\ [](credits >= 0)
    /\ [][\A r \in Reqs : DeductReturns(r) =>
            \/ credits' = credits - 1 /\ unlimited' = unlimited
            \/ credits' = credits /\ unlimited' = unlimited]_vars

\* C3: deduct_credit on an account with unlimited = true returns success
\* and leaves credits_remaining unchanged
C3_UnlimitedNeverDecrements ==
    [][\A r \in Reqs : (DeductReturns(r) /\ unlimited) =>
            (deducted'[r] /\ credits' = credits)]_vars

\* C4: execute_search starts only after deduct_credit succeeded for the same
\* request; a deduct_credit call on an account that is not unlimited and has
\* zero credits ends the request with 402, balance unchanged, no pipeline
C4_PipelineGatedByDeduct ==
    /\ [](\A r \in Reqs : runs[r] > 0 => deducted[r])
    /\ [][\A r \in Reqs : (DeductReturns(r) /\ ~unlimited /\ credits = 0) =>
            (outcome'[r] = 402 /\ credits' = credits /\ pc'[r] = "done")]_vars

\* C5: the merged listing set holds at most one listing per dedup key
\* (the VIN when non-empty, else the (brand, model, year, price) composite)
C5_OneListingPerDedupKey ==
    LET key(c) == IF c.vin # "" THEN <<"vin", c.vin, 0>>
                  ELSE <<"composite", "", c.vehicle>>
    IN  mpc = "done" =>
          \A i, j \in 1..Len(merged) : i # j => key(merged[i]) # key(merged[j])

\* C6: every listing an adapter emits has a price that is a positive number
C6_EmittedPricePositive ==
    \A i \in 1..Len(emitted) :
        emitted[i].price.t = "int" /\ emitted[i].price.v > 0

\* C7: when the overall deadline expires the request ends with 408, never
\* with a success carrying an empty or partial list, and nothing the
\* pipeline held is persisted or returned
C7_TimeoutIsDistinct ==
    \A r \in Reqs : timedOut[r] =>
        /\ pc[r] = "done"
        /\ outcome[r] = 408
        /\ count[r] = 0
        /\ ~persisted[r]

\* C7 witness: the deadline expired after the provider had returned listings
C7_TimedOutHoldingCars ==
    \E r \in Reqs : timedOut[r] /\ cars[r] > 0 /\ outcome[r] # 0

\* the ways the provider call hands execute_search a list
Returned == {"disabled", "transport_error", "parse_error", "geo_error", "ok"}

\* the failures AutoDevAPI.search_listings turns into an empty list
Absorbed == {"disabled", "transport_error", "parse_error", "geo_error"}

\* C8: when the deadline does not expire and the provider call returns an
\* empty list (no listings, or a failure it absorbed), the request ends as a
\* success with count = 0
C8_EmptyIsSuccess ==
    \A r \in Reqs :
        (pc[r] = "done" /\ ~timedOut[r] /\ provider[r] \in Returned /\ cars[r] = 0) =>
            (outcome[r] = 200 /\ count[r] = 0 /\ ~persisted[r])

\* C8 witness: a request whose provider failed and which was answered
C8_AnsweredAfterProviderFailure ==
    \E r \in Reqs : pc[r] = "done" /\ ~timedOut[r] /\ provider[r] = "transport_error"

C10_AtMostOnce ==
    \A r \in Reqs : deductCalls[r] <= 1 /\ charged[r] <= 1 /\ runs[r] <= 1

\* C10 witness: a charged request whose pipeline failed or timed out
C10_FailedAfterCharge ==
    \E r \in Reqs : pc[r] = "done" /\ charged[r] = 1 /\ runs[r] = 1
                    /\ outcome[r] \in {408, 500}

C12_EmptyOnlyAfterLastAttempt ==
    (spc = "returned" /\ adapter \in Keyed /\ enabled
        /\ tried[Len(tried)] = "transport_error") =>
            Len(tried) = max_attempts(adapter)

\* C13: brand/model filtering and every later stage of scrape_websites run
\* only after every scraper task has finished; the combined list is the
\* concatenation of the scrapers' lists in adapter order; a finished
\* scraper's contribution is changed by no other scraper
C13_GatherIsBarrier ==
    /\ [](mpc \in {"fallback", "filter", "done"} =>
            \A i \in Scrapers : taskResult[i].done)
    /\ [][(mpc = "gather" /\ mpc' # "gather") =>
            merged' = taskResult[1].result \o taskResult[2].result
                        \o taskResult[3].result]_vars
    /\ [][\A i \in Scrapers : taskResult[i].done =>
            taskResult'[i] = taskResult[i]]_vars

\* C13 witness: the first scraper contributed nothing, the other two did,
\* and the run went on to filtering
C13_CombinedWithOneEmpty ==
    /\ mpc = "done"
    /\ taskResult[1].result = <<>>
    /\ taskResult[2].result # <<>>
    /\ taskResult[3].result # <<>>
    /\ wanted = 0
    /\ Len(merged) = Len(taskResult[2].result) + Len(taskResult[3].result)

\* C14: the ranked list is the input list reordered by non-increasing
\* match_score, and two cars with equal score keep their input order
C14_RankIsStableDescending ==
    rpc \in {"ranked", "stored", "loaded"} =>
        /\ Len(ranked) = Len(rcars)
        /\ \A i \in 1..Len(rcars) : \E j \in 1..Len(ranked) :
              ranked[j].id = rcars[i].id /\ ranked[j].on = rcars[i].on
        /\ \A i, j \in 1..Len(ranked) : i < j =>
              /\ ranked[i].match_score >= ranked[j].match_score
              /\ ranked[i].match_score = ranked[j].match_score =>
                    ranked[i].id < ranked[j].id

\* C14 witness: a ranked list in which a later input car overtook an earlier
\* one and two cars of equal score follow each other
C14_ReorderedWithTie ==
    /\ rpc = "ranked"
    /\ \E i, j \in 1..Len(ranked) : i < j /\ ranked[i].id > ranked[j].id
    /\ \E i, j \in 1..Len(ranked) :
          i < j /\ ranked[i].match_score = ranked[j].match_score

\* C15: the rank values stored for one search are exactly 1..n in the order
\* the rows were written, on every persistence path, also when cars are skipped
C15_RanksContiguous ==
    rpc \in {"stored", "loaded"} =>
        \A k \in 1..Len(stored) : stored[k].rank = k

\* C16: every match_score computed by ranking is in 0..100, and every match
\* percentage returned to the caller is in 0..100
C16_ScoreWithinPercentRange ==
    /\ \A i \in 1..Len(ranked) : ranked[i].match_score \in 0..100
    /\ \A k \in 1..Len(shown) : shown[k] \in 0..100

\* C17: a search returns at most limit listings, and page p returns exactly
\* the listings at offsets (p-1)*limit .. p*limit-1 of the ranked set
C17_PageIsWindowOfLimit ==
    ppc \in {"searched", "answered", "paged"} =>
        /\ Len(presults) <= plimit
        /\ presults = window(snapshot, (ppage - 1) * plimit, plimit)

\* C18: with a non-empty required_features list and no other criterion, the
\* filter returns a listing exactly when every required token has a
\* case-insensitive substring match in its features list, its description
\* or its color
C18_FeatureFilterExact ==
    (/\ fpc = "done"
     /\ criteria.required_features # <<>>
     /\ criteria.min_price = 0
     /\ criteria.max_price = 0
     /\ criteria.preferred_brands = <<>>) =>
        (filtered = <<fcar>> <=> has_features_or_color(fcar, criteria.required_features))

\* the country a query is resolved for: `(country or "US").upper()`
country_of(q) == py_upper(IF q.country = <<>> THEN US ELSE q.country)

\* a Canadian query whose postal code is present and not of the Canadian format
malformed_postal(q) ==
    q.postal_code # <<>> /\ country_of(q) = CA /\ ~is_canadian_postal(q.postal_code)

\* C19: geo resolution always returns a target; a postal code that geocodes
\* wins, otherwise the city table is used on the location, otherwise the
\* target has the country only; a malformed postal code is dropped, so the
\* target is the one the query resolves to without it
C19_MalformedPostalDropped ==
    (spc = "returned" /\ adapter = "autodev" /\ enabled) =>
        /\ gtarget.country = country_of(gquery)
        /\ gtarget.coords = <<>> => gtarget.postal = <<>>
        /\ gtarget = resolve_geo_targets(IF malformed_postal(gquery)
                                         THEN [gquery EXCEPT !.postal_code = <<>>]
                                         ELSE gquery)

\* C20: a Canadian postal code of valid format whose forward sortation area
\* the geocoder knows, written with or without a space and in either case,
\* resolves in AutoDevAPI to non-null coordinates and to the three-character
\* sortation area, upper-cased; AutoTraderCA normalises it to the six
\* characters, upper-cased, and looks up no coordinates
C20_ResolvesToSortationArea ==
    (/\ spc = "returned" /\ enabled
     /\ country_of(gquery) = CA
     /\ is_canadian_postal(gquery.postal_code)
     /\ first_n(py_upper(without_spaces(gquery.postal_code)), 3) \in geocoder_keys(CA)) =>
        /\ adapter = "autodev" =>
              /\ gtarget.coords # <<>>
              /\ gtarget.postal = first_n(py_upper(without_spaces(gquery.postal_code)), 3)
        /\ adapter = "autotrader_ca" =>
              /\ gtarget.coords = <<>>
              /\ gtarget.postal = py_upper(without_spaces(gquery.postal_code))

\* C20 witness: "M5H 2N2" for Canada resolved by AutoDevAPI to "M5H"
C20_SpacedPostalResolved ==
    /\ spc = "returned" /\ enabled /\ adapter = "autodev"
    /\ gquery.postal_code = <<"M", "5", "H", " ", "2", "N", "2">>
    /\ gquery.country = CA
    /\ gtarget.coords # <<>>
    /\ gtarget.postal = <<"M", "5", "H">>

\* C20 as stated: "M5H 2N2" for Canada resolves to non-null coordinates and
\* the postal code "M5H2N2"
C20_SixCharacterResolvedPostal ==
    (/\ spc = "returned" /\ enabled /\ adapter \in {"autodev", "autotrader_ca"}
     /\ gquery.postal_code = <<"M", "5", "H", " ", "2", "N", "2">>
     /\ gquery.country = CA) =>
        /\ gtarget.coords # <<>>
        /\ gtarget.postal = <<"M", "5", "H", "2", "N", "2">>

\* C21: for a listing with a positive numeric price in USD, Auto.dev and
\* MarketCheck emit the integer part of price x 1.35 tagged CAD when the
\* target country is CA, and the price unchanged and untagged when it is US
C21_CurrencyByTargetCountry ==
    (converted \in {"autodev", "marketcheck"} /\ raw.price.t = "int" /\ raw.price.v > 0) =>
        /\ Len(emitted) = 1
        /\ country = "CA" =>
              /\ 100 * emitted[1].price.v <= 135 * raw.price.v
              /\ 135 * raw.price.v < 100 * (emitted[1].price.v + 1)
              /\ emitted[1].display_currency = "CAD"
        /\ country = "US" =>
              /\ emitted[1].price = raw.price
              /\ emitted[1].display_currency = "none"

\* C21 witness: a price whose CAD value is not a whole number, converted
C21_ConvertedAndTruncated ==
    /\ converted = "autodev" /\ country = "CA"
    /\ raw.price = Int_(3)
    /\ emitted = <<[price |-> Int_(4), source |-> "Auto.dev", display_currency |-> "CAD"]>>

C25_NoSearchWithoutCharge ==
    /\ \A r \in Reqs : runs[r] > 0 => deducted[r]
    /\ hruns = 0

\* the subscription events handled so far, in order
subscription_events ==
    SelectSeq(deliveries, LAMBDA d : d.type # "checkout.session.completed")

\* the last subscription event handled ended the plan
Revoked ==
    /\ subscription_events # <<>>
    /\ LET d == subscription_events[Len(subscription_events)] IN
         \/ d.type = "customer.subscription.deleted"
         \/ /\ d.type = "customer.subscription.updated"
            /\ d.status \in {"canceled", "past_due", "unpaid"}

\* C23: once a customer.subscription.deleted webhook, or a
\* customer.subscription.updated webhook with status canceled, past_due or
\* unpaid, has been processed, unlimited_searches is false; a search that
\* starts after it sees the user as not unlimited, is refused with 402 at
\* balance 0 and otherwise pays one credit in deduct_credit.
C23_RevokedPlanPaysAgain ==
    /\ [](Revoked => ~unlimited)
    /\ [][(Revoked /\ pc[1] = "start" /\ pc'[1] # "start")
             => (sess'[1].loaded /\ ~sess'[1].unlimited)]_vars
    /\ [][(pc[1] = "check_quota" /\ pc'[1] # "check_quota"
              /\ ~sess[1].unlimited /\ sess[1].credits = 0)
             => (outcome'[1] = 402 /\ ~deducted'[1])]_vars
    /\ [][(DeductReturns(1) /\ ~sess[1].unlimited)
             => \/ outcome'[1] = 402 /\ credits' = credits
                \/ /\ deducted'[1] /\ charged'[1] = charged[1] + 1
                   /\ credits' = sess[1].credits - 1]_vars

\* C23 witness: a plan was active, the deletion webhook was processed, and a
\* search that saw the user as not unlimited has paid its credit
C23_ChargedAfterDeletion ==
    /\ Len(subscription_events) > 0
    /\ subscription_events[Len(subscription_events)].type = "customer.subscription.deleted"
    /\ subscription = "canceled"
    /\ ~unlimited
    /\ deducted[1] /\ charged[1] = 1 /\ pc[1] = "search"

\* the event in flight was already answered 200 in an earlier delivery
redelivered ==
    \E i \in 1..(Len(deliveries) - 1) :
        /\ deliveries[i].type = deliveries[Len(deliveries)].type
        /\ deliveries[i].id = deliveries[Len(deliveries)].id
        /\ deliveries[i].response = 200

\* the step in which handle_payment_success commits
PaymentCommits == adminPc = "payment" /\ adminPc' = "idle" /\ adminOps' = adminOps + 1
                  /\ deliveries'[Len(deliveries')].response = 200

\* C24: no credit update is lost when add_credits runs concurrently with
\* deduct_credit: the commit of add_credits raises the balance the database
\* holds at that moment by exactly credits_to_add.
C24_AddCreditsKeepsDeduction ==
    [][PaymentCommits => credits' = credits + credits_to_add]_vars

\* C28: processing a payment webhook is idempotent per event id: a delivery
\* of a checkout.session.completed event that was already answered 200
\* leaves the balance as it is.
C28_RedeliveryAddsNothing ==
    [][(PaymentCommits /\ redelivered) => credits' = credits]_vars

\* C29: after any sequence of customer.subscription.created / updated /
\* deleted webhooks, unlimited_searches is true exactly when the recorded
\* subscription status is active.
C29_UnlimitedIffActive ==
    unlimited <=> subscription = "active"

\* C26: the credit is deducted and committed before the search runs and is
\* never refunded: the balance moves only by the charge of deduct_credit, the
\* pipeline runs only after it, and a request of a non-unlimited user that
\* ends in 408 or 500 has paid exactly one credit.
C26_ChargedBeforeSearchNoRefund ==
    /\ [][credits' = credits - (charged'[1] - charged[1])]_vars
    /\ [](runs[1] > 0 => deducted[1])
    /\ []((~unlimited /\ outcome[1] \in {408, 500}) => charged[1] = 1)

\* C26 witness: the last credit was paid and the search then failed with 500
C26_LastCreditSpentOnFailure ==
    /\ ~unlimited /\ credits = 0 /\ charged[1] = 1
    /\ outcome[1] = 500 /\ ~timedOut[1] /\ pc[1] = "done"

\* C27: the row lock is held only inside deduct_credit, and under fair
\* scheduling every deduct_credit call of overlapping requests returns, with
\* success or with the quota failure.
C27_DeductAlwaysReturns ==
    /\ [](\A r \in Reqs : lockHolder = r => pc[r] = "deduct")
    /\ \A r \in Reqs :
         (pc[r] = "deduct_lock") ~> (deducted[r] \/ outcome[r] = 402)

\* C27 witness: the deduct_credit calls of two requests overlapped and both
\* have returned, before either search began
C27_OverlappingCallsReturned ==
    /\ \A r \in {1, 2} : deductCalls[r] = 1 /\ deducted[r] /\ pc[r] = "search"
    /\ lockHolder = 0

\* C30: within one request every stage uses the same country: listings of
\* AutoDevAPI are converted to CAD exactly when the request was geo-targeted
\* as Canadian, and a request scrape_websites routes as Canadian is
\* geo-targeted as Canadian, also when the criteria carry no country.
C30_OneCountryPerRequest ==
    (spc = "returned" /\ adapter = "autodev" /\ enabled /\ tried[Len(tried)] = "ok") =>
        /\ scurrency = "CAD" <=> gtarget.country = CA
        /\ caller = "scrape_websites" =>
               (route_is_canadian(gquery) <=> gtarget.country = CA)

====
